---- MODULE Spec2Model ----
(***************************************************************************)
(* Keystroke (crates/gpui/src/platform/keystroke.rs): the key-chord        *)
(* grammar parser, the match-candidate generator, the IME simulation and    *)
(* the display formatter.                                                  *)
(* MultibufferHint (crates/welcome/src/multibuffer_hint.rs): the toolbar   *)
(* hint and its shared count of the times it was shown.                    *)
(*                                                                         *)
(* A string is a sequence of characters, a character a one-character       *)
(* string: "ctrl" is <<"c", "t", "r", "l">> and the empty string is <<>>.  *)
(***************************************************************************)
EXTENDS Integers, Sequences, FiniteSets, TLC

VARIABLES
    \* Keystroke::parse: its argument, its locals, its position, its return value
    source, components, control, alt, shift, command, function, key, ime_key,
    pc, result,
    \* the methods on a Keystroke value: the receiver, the last method applied
    \* and what it returned
    self, op, possibilities, simulated, rendered,
    \* MultibufferHint: the static SHOWN_COUNT, the fields of each hint, the
    \* last call with its arguments, the location it returned or emitted, and
    \* whether dismiss has run
    counter, shown_on, active_item, last_call, location, dismissed

parseVars == <<source, components, control, alt, shift, command, function,
               key, ime_key, pc, result>>
methodVars == <<self, op, possibilities, simulated, rendered>>
hintVars == <<counter, shown_on, active_item, last_call, location, dismissed>>
vars == <<source, components, control, alt, shift, command, function, key,
          ime_key, pc, result, self, op, possibilities, simulated, rendered,
          counter, shown_on, active_item, last_call, location, dismissed>>

----------------------------------------------------------------------------
(* Bounds *)

\* the longest source, in '-'-separated components, that parse is given
MaxComponents == 4

\* the largest count the key-value store holds when SHOWN_COUNT is first read
MaxStoredCount == 12

\* the pane items have the entity ids 1..MaxItemId
MaxItemId == 2

----------------------------------------------------------------------------
(* Characters and strings *)

Hyphen == "-"
ImeMarker == ">"

Lower == <<"a", "b", "c", "d", "e", "f", "g", "h", "i", "j", "k", "l", "m",
           "n", "o", "p", "q", "r", "s", "t", "u", "v", "w", "x", "y", "z">>
Upper == <<"A", "B", "C", "D", "E", "F", "G", "H", "I", "J", "K", "L", "M",
           "N", "O", "P", "Q", "R", "S", "T", "U", "V", "W", "X", "Y", "Z">>

\* str::len counts UTF-8 bytes: the characters outside ASCII used here take two
Utf8Len(c) == IF c \in {"ß", "å", "Å"} THEN 2 ELSE 1

RECURSIVE StrLen(_)
StrLen(s) == IF s = <<>> THEN 0 ELSE Utf8Len(Head(s)) + StrLen(Tail(s))

\* char::to_uppercase, which may give more than one character
CharToUppercase(c) ==
    IF \E i \in 1..Len(Lower) : Lower[i] = c
    THEN <<Upper[CHOOSE i \in 1..Len(Lower) : Lower[i] = c]>>
    ELSE IF c = "ß" THEN <<"S", "S">>
    ELSE IF c = "å" THEN <<"Å">>
    ELSE <<c>>

\* char::to_ascii_uppercase
CharToAsciiUppercase(c) ==
    IF \E i \in 1..Len(Lower) : Lower[i] = c
    THEN Upper[CHOOSE i \in 1..Len(Lower) : Lower[i] = c]
    ELSE c

\* str::to_uppercase
RECURSIVE ToUppercase(_)
ToUppercase(s) ==
    IF s = <<>> THEN <<>> ELSE CharToUppercase(Head(s)) \o ToUppercase(Tail(s))

\* str::ends_with(char) and str::starts_with(char)
EndsWith(s, c) == s # <<>> /\ s[Len(s)] = c
StartsWith(s, c) == s # <<>> /\ s[1] = c

\* source.split('-'): the pieces between the separators, <<"">> for ""
RECURSIVE Split(_, _)
Split(s, sep) ==
    IF \E i \in 1..Len(s) : s[i] = sep
    THEN LET i == CHOOSE j \in 1..Len(s) :
                      s[j] = sep /\ \A h \in 1..(j - 1) : s[h] # sep
         IN  <<SubSeq(s, 1, i - 1)>> \o Split(SubSeq(s, i + 1, Len(s)), sep)
    ELSE <<s>>

----------------------------------------------------------------------------
(* The string literals of the source *)

K_ctrl == <<"c", "t", "r", "l">>
K_alt == <<"a", "l", "t">>
K_shift == <<"s", "h", "i", "f", "t">>
K_cmd == <<"c", "m", "d">>
K_fn == <<"f", "n">>
K_space == <<"s", "p", "a", "c", "e">>
K_tab == <<"t", "a", "b">>
K_enter == <<"e", "n", "t", "e", "r">>
K_up == <<"u", "p">>
K_down == <<"d", "o", "w", "n">>
K_left == <<"l", "e", "f", "t">>
K_right == <<"r", "i", "g", "h", "t">>
K_pageup == <<"p", "a", "g", "e", "u", "p">>
K_pagedown == <<"p", "a", "g", "e", "d", "o", "w", "n">>
K_home == <<"h", "o", "m", "e">>
K_end == <<"e", "n", "d">>
K_delete == <<"d", "e", "l", "e", "t", "e">>
K_escape == <<"e", "s", "c", "a", "p", "e">>
K_backspace == <<"b", "a", "c", "k", "s", "p", "a", "c", "e">>
K_f1 == <<"f", "1">>
K_f2 == <<"f", "2">>
K_f3 == <<"f", "3">>
K_f4 == <<"f", "4">>
K_f5 == <<"f", "5">>
K_f6 == <<"f", "6">>
K_f7 == <<"f", "7">>
K_f8 == <<"f", "8">>
K_f9 == <<"f", "9">>
K_f10 == <<"f", "1", "0">>
K_f11 == <<"f", "1", "1">>
K_f12 == <<"f", "1", "2">>

----------------------------------------------------------------------------
(* Keystroke and Modifiers *)

None == [some |-> FALSE]
Some(x) == [some |-> TRUE, val |-> x]

Modifiers == [control : BOOLEAN, alt : BOOLEAN, shift : BOOLEAN,
              command : BOOLEAN, function : BOOLEAN]

\* Modifiers::default() / Modifiers::none()
NoModifiers == [control |-> FALSE, alt |-> FALSE, shift |-> FALSE,
                command |-> FALSE, function |-> FALSE]

\* Keystroke::default()
DefaultKeystroke == [modifiers |-> NoModifiers, key |-> <<>>, ime_key |-> None]

Ok(k) == [ok |-> TRUE, ks |-> k]
\* anyhow!("Invalid keystroke `{}`", source)
Err(src) == [ok |-> FALSE, invalid_keystroke |-> src]
NoResult == [ok |-> FALSE]

----------------------------------------------------------------------------
(* Keystroke::parse *)

\* the match without its "fn" arm
IsModifierKeywordWithoutFn(component) ==
    component \in {K_ctrl, K_alt, K_shift, K_cmd}

\* the five keyword arms of the match; every other component takes the `_` arm
IsModifierKeyword(component) ==
    component \in {K_ctrl, K_alt, K_shift, K_cmd, K_fn}

\* next.is_empty() && source.ends_with('-')
IsTrailingHyphen(next, src) == next = <<>> /\ EndsWith(src, Hyphen)

\* the test of '>' without the test of the length
IsImeContinuationOfAnyLength(next) == StartsWith(next, ImeMarker)

\* next.len() > 1 && next.starts_with('>')
IsImeContinuation(next) == StrLen(next) > 1 /\ StartsWith(next, ImeMarker)

\* the components the sources are made of
Tokens == {<<>>, K_ctrl, K_alt, K_shift, K_cmd, K_fn, <<"a">>, K_space,
           <<ImeMarker>>, <<ImeMarker, "b">>}

RECURSIVE Join(_, _)
Join(cs, sep) ==
    IF Len(cs) = 1 THEN cs[1] ELSE cs[1] \o <<sep>> \o Join(Tail(cs), sep)

\* the grammar of the doc comment, [ctrl-][alt-][shift-][cmd-][fn-]key, written out
FormatAsGrammar(k) ==
    (IF k.modifiers.control THEN K_ctrl \o <<Hyphen>> ELSE <<>>)
    \o (IF k.modifiers.alt THEN K_alt \o <<Hyphen>> ELSE <<>>)
    \o (IF k.modifiers.shift THEN K_shift \o <<Hyphen>> ELSE <<>>)
    \o (IF k.modifiers.command THEN K_cmd \o <<Hyphen>> ELSE <<>>)
    \o (IF k.modifiers.function THEN K_fn \o <<Hyphen>> ELSE <<>>)
    \o k.key

\* keys of one character, and key names of several
SingleCharKeys == {<<"a">>, <<"s">>, <<"A">>, <<"1">>, <<Hyphen>>,
                   <<ImeMarker>>, <<"ß">>, <<" ">>}
MultiCharKeys == {K_space, K_tab, K_enter, K_up, K_pagedown, K_backspace,
                  K_f1, K_f12}

UnambiguousChords ==
    {[modifiers |-> m, key |-> t, ime_key |-> None] :
        m \in Modifiers, t \in SingleCharKeys \cup MultiCharKeys}

\* every string is the join of its '-'-free components; the chords of the
\* grammar with all their modifiers run to more components than MaxComponents
Sources ==
    {Join(cs, Hyphen) : cs \in UNION {[1..n -> Tokens] : n \in 1..MaxComponents}}
    \cup {FormatAsGrammar(k) : k \in UnambiguousChords}

\* the call: lines 62-70
ParseCall ==
    /\ pc = "idle"
    /\ \E src \in Sources :
        /\ source' = src
        /\ components' = Split(src, Hyphen)
    /\ control' = FALSE
    /\ alt' = FALSE
    /\ shift' = FALSE
    /\ command' = FALSE
    /\ function' = FALSE
    /\ key' = None
    /\ ime_key' = None
    /\ pc' = "loop"
    /\ UNCHANGED result

\* one turn of the loop on a modifier keyword
ParseModifier ==
    /\ pc = "loop"
    /\ components # <<>>
    /\ LET component == Head(components) IN
        /\ IsModifierKeyword(component)
        /\ control' = IF component = K_ctrl THEN TRUE ELSE control
        /\ alt' = IF component = K_alt THEN TRUE ELSE alt
        /\ shift' = IF component = K_shift THEN TRUE ELSE shift
        /\ command' = IF component = K_cmd THEN TRUE ELSE command
        /\ function' = IF component = K_fn THEN TRUE ELSE function
    /\ components' = Tail(components)
    /\ UNCHANGED <<source, key, ime_key, pc, result>>

\* the `_` arm, the next component empty and the source ending with '-': break
ParseKeyHyphen ==
    /\ pc = "loop"
    /\ components # <<>>
    /\ ~IsModifierKeyword(Head(components))
    /\ Tail(components) # <<>>
    /\ IsTrailingHyphen(Head(Tail(components)), source)
    /\ key' = Some(<<Hyphen>>)
    /\ components' = Tail(components)
    /\ pc' = "after_loop"
    /\ UNCHANGED <<source, control, alt, shift, command, function, ime_key,
                   result>>

\* the `_` arm, the next component a '>' continuation: both are consumed
ParseKeyIme ==
    /\ pc = "loop"
    /\ components # <<>>
    /\ ~IsModifierKeyword(Head(components))
    /\ Tail(components) # <<>>
    /\ LET next == Head(Tail(components)) IN
        /\ ~IsTrailingHyphen(next, source)
        /\ IsImeContinuation(next)
        /\ key' = Some(Head(components))
        /\ ime_key' = Some(Tail(next))
    /\ components' = Tail(Tail(components))
    /\ UNCHANGED <<source, control, alt, shift, command, function, pc, result>>

\* the `_` arm, any other next component: return Err
ParseKeyInvalid ==
    /\ pc = "loop"
    /\ components # <<>>
    /\ ~IsModifierKeyword(Head(components))
    /\ Tail(components) # <<>>
    /\ LET next == Head(Tail(components)) IN
        /\ ~IsTrailingHyphen(next, source)
        /\ ~IsImeContinuation(next)
    /\ result' = Err(source)
    /\ components' = Tail(components)
    /\ pc' = "returned"
    /\ UNCHANGED <<source, control, alt, shift, command, function, key, ime_key>>

\* the `_` arm on the last component
ParseKeyLast ==
    /\ pc = "loop"
    /\ components # <<>>
    /\ ~IsModifierKeyword(Head(components))
    /\ Tail(components) = <<>>
    /\ key' = Some(Head(components))
    /\ components' = Tail(components)
    /\ UNCHANGED <<source, control, alt, shift, command, function, ime_key,
                   pc, result>>

\* components.next() is None: the loop ends
ParseLoopEnd ==
    /\ pc = "loop"
    /\ components = <<>>
    /\ pc' = "after_loop"
    /\ UNCHANGED <<source, components, control, alt, shift, command, function,
                   key, ime_key, result>>

\* lines 97-109: the error for no key, or the Keystroke
ParseReturn ==
    /\ pc = "after_loop"
    /\ result' = IF key.some
                 THEN Ok([modifiers |-> [control |-> control, alt |-> alt,
                                         shift |-> shift, command |-> command,
                                         function |-> function],
                          key |-> key.val,
                          ime_key |-> ime_key])
                 ELSE Err(source)
    /\ pc' = "returned"
    /\ UNCHANGED <<source, components, control, alt, shift, command, function,
                   key, ime_key>>

----------------------------------------------------------------------------
(* Keystroke::match_candidates and Keystroke::with_simulated_ime *)

\* the IME candidate pushed without comparing ime_key with key
MatchCandidatesNoCompare(k) ==
    IF k.ime_key.some
    THEN <<[modifiers |-> [control |-> k.modifiers.control, alt |-> FALSE,
                           shift |-> FALSE, command |-> FALSE,
                           function |-> FALSE],
            key |-> k.ime_key.val, ime_key |-> None],
           [k EXCEPT !.ime_key = None]>>
    ELSE <<k>>

\* the literal candidate pushed as a clone, its ime_key not cleared
MatchCandidatesKeepingImeKey(k) ==
    IF k.ime_key.some
    THEN (IF k.ime_key.val # k.key
          THEN <<[modifiers |-> [control |-> k.modifiers.control,
                                 alt |-> FALSE, shift |-> FALSE,
                                 command |-> FALSE, function |-> FALSE],
                  key |-> k.ime_key.val, ime_key |-> None]>>
          ELSE <<>>)
         \o <<k>>
    ELSE <<k>>

\* the two pushes in the other order
MatchCandidatesLiteralFirst(k) ==
    IF k.ime_key.some
    THEN <<[k EXCEPT !.ime_key = None]>>
         \o (IF k.ime_key.val # k.key
             THEN <<[modifiers |-> [control |-> k.modifiers.control,
                                    alt |-> FALSE, shift |-> FALSE,
                                    command |-> FALSE, function |-> FALSE],
                     key |-> k.ime_key.val, ime_key |-> None]>>
             ELSE <<>>)
    ELSE <<k>>

MatchCandidates(k) ==
    IF k.ime_key.some
    THEN (IF k.ime_key.val # k.key
          THEN <<[modifiers |-> [control |-> k.modifiers.control,
                                 alt |-> FALSE,
                                 shift |-> FALSE,
                                 command |-> FALSE,
                                 function |-> FALSE],
                  key |-> k.ime_key.val,
                  ime_key |-> None]>>
          ELSE <<>>)
         \o <<[k EXCEPT !.ime_key = None]>>
    ELSE <<k>>

\* the arm of the match that sets no ime_key
NonTextKeys == {K_up, K_down, K_left, K_right, K_pageup, K_pagedown, K_home,
                K_end, K_delete, K_escape, K_backspace, K_f1, K_f2, K_f3, K_f4,
                K_f5, K_f6, K_f7, K_f8, K_f9, K_f10, K_f11, K_f12}

\* the guard without its test of alt
WithSimulatedImeUnderAlt(k) ==
    IF /\ ~k.ime_key.some
       /\ ~k.modifiers.command
       /\ ~k.modifiers.control
       /\ ~k.modifiers.function
    THEN [k EXCEPT !.ime_key =
            IF k.key = K_space THEN Some(<<" ">>)
            ELSE IF k.key = K_tab THEN Some(<<"\t">>)
            ELSE IF k.key = K_enter THEN Some(<<"\n">>)
            ELSE IF k.key \in NonTextKeys THEN None
            ELSE IF k.modifiers.shift THEN Some(ToUppercase(k.key))
            ELSE Some(k.key)]
    ELSE k

WithSimulatedIme(k) ==
    IF /\ ~k.ime_key.some
       /\ ~k.modifiers.command
       /\ ~k.modifiers.control
       /\ ~k.modifiers.function
       /\ ~k.modifiers.alt
    THEN [k EXCEPT !.ime_key =
            IF k.key = K_space THEN Some(<<" ">>)
            ELSE IF k.key = K_tab THEN Some(<<"\t">>)
            ELSE IF k.key = K_enter THEN Some(<<"\n">>)
            ELSE IF k.key \in NonTextKeys THEN None
            ELSE IF k.modifiers.shift THEN Some(ToUppercase(k.key))
            ELSE Some(k.key)]
    ELSE k

----------------------------------------------------------------------------
(* impl Display for Keystroke *)

\* the characters the formatter writes for the modifiers and the named keys; a
\* character outside Latin-1 is written as its code point
GlyphControl == "^"
GlyphAlt == "U+2325"
GlyphCommand == "U+2318"
GlyphShift == "U+21E7"
GlyphBackspace == "U+232B"
GlyphUp == "U+2191"
GlyphDown == "U+2193"
GlyphLeft == "U+2190"
GlyphRight == "U+2192"
GlyphTab == "U+21E5"
GlyphEscape == "U+238B"

\* the match on the key: a glyph for the seven named keys, the ASCII upper case
\* of a key of one byte, any other key as it is
KeyGlyph(k) ==
    IF k = K_backspace THEN <<GlyphBackspace>>
    ELSE IF k = K_up THEN <<GlyphUp>>
    ELSE IF k = K_down THEN <<GlyphDown>>
    ELSE IF k = K_left THEN <<GlyphLeft>>
    ELSE IF k = K_right THEN <<GlyphRight>>
    ELSE IF k = K_tab THEN <<GlyphTab>>
    ELSE IF k = K_escape THEN <<GlyphEscape>>
    ELSE IF StrLen(k) = 1 THEN <<CharToAsciiUppercase(Head(k))>>
    ELSE k

\* the glyph of shift written before that of command
FmtShiftBeforeCommand(k) ==
    (IF k.modifiers.control THEN <<GlyphControl>> ELSE <<>>)
    \o (IF k.modifiers.alt THEN <<GlyphAlt>> ELSE <<>>)
    \o (IF k.modifiers.shift THEN <<GlyphShift>> ELSE <<>>)
    \o (IF k.modifiers.command THEN <<GlyphCommand>> ELSE <<>>)
    \o KeyGlyph(k.key)

\* Display::fmt: what it writes
Fmt(k) ==
    (IF k.modifiers.control THEN <<GlyphControl>> ELSE <<>>)
    \o (IF k.modifiers.alt THEN <<GlyphAlt>> ELSE <<>>)
    \o (IF k.modifiers.command THEN <<GlyphCommand>> ELSE <<>>)
    \o (IF k.modifiers.shift THEN <<GlyphShift>> ELSE <<>>)
    \o KeyGlyph(k.key)

\* the key labels and the IME strings of the keystrokes the methods are given
KeyLabels == NonTextKeys
             \cup {K_space, K_tab, K_enter, <<"a">>, <<"s">>, <<"A">>, <<"ß">>,
                   <<"å">>, <<Hyphen>>, <<"a", "b">>, <<"f", "1", "3">>, <<>>}
ImeStrings == {<<"a">>, <<"ß">>, <<" ">>, <<"a", "b">>, K_up, <<>>}

Keystrokes ==
    [modifiers : Modifiers, key : KeyLabels,
     ime_key : {None} \cup {Some(t) : t \in ImeStrings}]

CallMatchCandidates ==
    /\ op = "none"
    /\ \E k \in Keystrokes :
        /\ self' = k
        /\ possibilities' = MatchCandidates(k)
    /\ op' = "match_candidates"
    /\ UNCHANGED <<simulated, rendered>>

CallWithSimulatedIme ==
    /\ op = "none"
    /\ \E k \in Keystrokes :
        /\ self' = k
        /\ simulated' = WithSimulatedIme(k)
    /\ op' = "with_simulated_ime"
    /\ UNCHANGED <<possibilities, rendered>>

CallFmt ==
    /\ op = "none"
    /\ \E k \in Keystrokes :
        /\ self' = k
        /\ rendered' = Fmt(k)
    /\ op' = "fmt"
    /\ UNCHANGED <<possibilities, simulated>>

----------------------------------------------------------------------------
(* MultibufferHint *)

NUMBER_OF_HINTS == 10

\* the MultibufferHint views, one in the toolbar of each pane; they share the
\* static SHOWN_COUNT
Hints == {"hint_a", "hint_b"}

ItemIds == 1..MaxItemId

NoCall == [name |-> "none", hint |-> "none", item |-> None, singleton |-> FALSE]

\* MultibufferHint::shown_count
ShownCount == counter.val

\* the first test of set_active_pane_item one hint late
HintsExhaustedOneLate(count) == count > NUMBER_OF_HINTS + 1

\* Self::shown_count() > NUMBER_OF_HINTS
HintsExhausted(count) == count > NUMBER_OF_HINTS

\* counter(): the closure of get_or_init, run at the first use of the count
CounterInit ==
    /\ ~counter.some
    /\ \E stored \in 0..MaxStoredCount : counter' = Some(stored)
    /\ UNCHANGED <<shown_on, active_item, last_call, location, dismissed>>

\* set_active_pane_item with the count above NUMBER_OF_HINTS
SetActivePaneItemExhausted ==
    /\ counter.some
    /\ HintsExhausted(ShownCount)
    /\ \E h \in Hints, item \in {None} \cup {Some(i) : i \in ItemIds},
          singleton \in BOOLEAN :
        last_call' = [name |-> "set_active_pane_item", hint |-> h,
                      item |-> item, singleton |-> singleton]
    /\ location' = "Hidden"
    /\ UNCHANGED <<counter, shown_on, active_item, dismissed>>

\* set_active_pane_item with no active item
SetActivePaneItemNone ==
    /\ counter.some
    /\ ~HintsExhausted(ShownCount)
    /\ \E h \in Hints, singleton \in BOOLEAN :
        last_call' = [name |-> "set_active_pane_item", hint |-> h,
                      item |-> None, singleton |-> singleton]
    /\ location' = "Hidden"
    /\ UNCHANGED <<counter, shown_on, active_item, dismissed>>

\* set_active_pane_item with a singleton item
SetActivePaneItemSingleton ==
    /\ counter.some
    /\ ~HintsExhausted(ShownCount)
    /\ \E h \in Hints, i \in ItemIds :
        last_call' = [name |-> "set_active_pane_item", hint |-> h,
                      item |-> Some(i), singleton |-> TRUE]
    /\ location' = "Hidden"
    /\ UNCHANGED <<counter, shown_on, active_item, dismissed>>

\* set_active_pane_item with a multibuffer: lines 85-90, increment_count and
\* set_count with them
SetActivePaneItemShown ==
    /\ counter.some
    /\ ~HintsExhausted(ShownCount)
    /\ \E h \in Hints, i \in ItemIds :
        /\ last_call' = [name |-> "set_active_pane_item", hint |-> h,
                         item |-> Some(i), singleton |-> FALSE]
        /\ shown_on' = [shown_on EXCEPT ![h] = @ \cup {i}]
        /\ counter' = IF i \notin shown_on[h]
                      THEN Some(ShownCount + 1)
                      ELSE counter
        /\ active_item' = [active_item EXCEPT ![h] = Some(i)]
    /\ location' = "Secondary"
    /\ UNCHANGED dismissed

\* the dismiss button of render, which is there when the hint has an active
\* item: dismiss, set_count, and the ChangeLocation(Hidden) it emits
Dismiss ==
    /\ counter.some
    /\ \E h \in Hints :
        /\ active_item[h].some
        /\ last_call' = [name |-> "dismiss", hint |-> h, item |-> None,
                         singleton |-> FALSE]
    /\ counter' = Some(NUMBER_OF_HINTS)
    /\ location' = "Hidden"
    /\ dismissed' = TRUE
    /\ UNCHANGED <<shown_on, active_item>>

----------------------------------------------------------------------------
(* The specifications *)

ParseInit ==
    /\ source = <<>>
    /\ components = <<>>
    /\ control = FALSE
    /\ alt = FALSE
    /\ shift = FALSE
    /\ command = FALSE
    /\ function = FALSE
    /\ key = None
    /\ ime_key = None
    /\ pc = "idle"
    /\ result = NoResult

MethodInit ==
    /\ self = DefaultKeystroke
    /\ op = "none"
    /\ possibilities = <<>>
    /\ simulated = DefaultKeystroke
    /\ rendered = <<>>

\* MultibufferHint::new for every hint, SHOWN_COUNT not yet read
HintInit ==
    /\ counter = None
    /\ shown_on = [h \in Hints |-> {}]
    /\ active_item = [h \in Hints |-> None]
    /\ last_call = NoCall
    /\ location = "none"
    /\ dismissed = FALSE

Init == ParseInit /\ MethodInit /\ HintInit

Next ==
    \/ ParseCall /\ UNCHANGED <<methodVars, hintVars>>
    \/ ParseModifier /\ UNCHANGED <<methodVars, hintVars>>
    \/ ParseKeyHyphen /\ UNCHANGED <<methodVars, hintVars>>
    \/ ParseKeyIme /\ UNCHANGED <<methodVars, hintVars>>
    \/ ParseKeyInvalid /\ UNCHANGED <<methodVars, hintVars>>
    \/ ParseKeyLast /\ UNCHANGED <<methodVars, hintVars>>
    \/ ParseLoopEnd /\ UNCHANGED <<methodVars, hintVars>>
    \/ ParseReturn /\ UNCHANGED <<methodVars, hintVars>>

\* Keystroke::parse on every source
Spec == Init /\ [][Next]_vars

MethodNext ==
    \/ CallMatchCandidates /\ UNCHANGED <<parseVars, hintVars>>
    \/ CallWithSimulatedIme /\ UNCHANGED <<parseVars, hintVars>>
    \/ CallFmt /\ UNCHANGED <<parseVars, hintVars>>

\* the methods on every Keystroke
SpecKeystroke == Init /\ [][MethodNext]_vars

HintNext ==
    \/ CounterInit /\ UNCHANGED <<parseVars, methodVars>>
    \/ SetActivePaneItemExhausted /\ UNCHANGED <<parseVars, methodVars>>
    \/ SetActivePaneItemNone /\ UNCHANGED <<parseVars, methodVars>>
    \/ SetActivePaneItemSingleton /\ UNCHANGED <<parseVars, methodVars>>
    \/ SetActivePaneItemShown /\ UNCHANGED <<parseVars, methodVars>>
    \/ Dismiss /\ UNCHANGED <<parseVars, methodVars>>

\* the calls on the multibuffer hints, in any order
SpecHint == Init /\ [][HintNext]_vars

----------------------------------------------------------------------------
(* What the claims speak of *)

\* the modifier keywords among the first n components
ModifiersAmong(cs, n) ==
    [control |-> \E i \in 1..n : cs[i] = K_ctrl,
     alt |-> \E i \in 1..n : cs[i] = K_alt,
     shift |-> \E i \in 1..n : cs[i] = K_shift,
     command |-> \E i \in 1..n : cs[i] = K_cmd,
     function |-> \E i \in 1..n : cs[i] = K_fn]

KeywordSet == {K_ctrl, K_alt, K_shift, K_cmd, K_fn}

HasKeyComponent(cs) == \E i \in 1..Len(cs) : cs[i] \notin KeywordSet

\* the place of the first component that is no modifier keyword
FirstKeyIndex(cs) ==
    CHOOSE i \in 1..Len(cs) :
        cs[i] \notin KeywordSet /\ \A h \in 1..(i - 1) : cs[h] \in KeywordSet

\* a component ">" + x with x not empty
IsImeComponent(c) == Len(c) > 1 /\ c[1] = ImeMarker

SourceComponents == Split(source, Hyphen)

\* the first key component has a component after it
KeyIsFollowed ==
    /\ HasKeyComponent(SourceComponents)
    /\ FirstKeyIndex(SourceComponents) < Len(SourceComponents)

ComponentAfterKey == SourceComponents[FirstKeyIndex(SourceComponents) + 1]

----------------------------------------------------------------------------
(* The claims on match_candidates, under SpecKeystroke *)

\* C1: match_candidates returns exactly one candidate when ime_key is None or
\* equals key, and exactly two when ime_key is Some and differs from key; it
\* never returns none.
CandidateCount ==
    op = "match_candidates" =>
        Len(possibilities) =
            IF self.ime_key = None \/ self.ime_key = Some(self.key) THEN 1 ELSE 2

\* C1's case: an ime_key that differs from the key, and two candidates
CandidateCountWitness ==
    /\ op = "match_candidates"
    /\ self.ime_key.some
    /\ self.ime_key.val # self.key
    /\ Len(possibilities) = 2

\* C2: of two candidates, the first has no ime_key, the IME string as its key
\* and of the modifiers only control; the second has no ime_key, the key and
\* the modifiers of the keystroke.
CandidateOrdering ==
    (op = "match_candidates" /\ Len(possibilities) = 2) =>
        /\ self.ime_key.some
        /\ possibilities[1] =
             [modifiers |-> [NoModifiers EXCEPT !.control = self.modifiers.control],
              key |-> self.ime_key.val,
              ime_key |-> None]
        /\ possibilities[2] =
             [modifiers |-> self.modifiers, key |-> self.key, ime_key |-> None]

\* C2's case: two candidates for a keystroke with modifiers besides control
CandidateOrderingWitness ==
    /\ op = "match_candidates"
    /\ Len(possibilities) = 2
    /\ self.modifiers.control
    /\ self.modifiers.alt
    /\ self.modifiers.shift
    /\ possibilities[1] # possibilities[2]

----------------------------------------------------------------------------
(* The claims on parse, under Spec *)

\* C3: a successful parse gives a Keystroke whose key is not the empty string.
ParsedKeyIsNotEmpty ==
    (pc = "returned" /\ result.ok) => result.ks.key # <<>>

\* C4: parse returns the invalid-keystroke error for a source with no key
\* token: the empty string, or modifier keywords alone.
NoKeyTokenIsAnError ==
    (/\ pc = "returned"
     /\ \/ source = <<>>
        \/ ~HasKeyComponent(SourceComponents))
    => result = Err(source)

\* C5: when the first component that is no modifier keyword is followed by a
\* component that is neither empty with the source ending in '-', nor longer
\* than one character and starting with '>', parse returns the
\* invalid-keystroke error with the source, and no Keystroke.
BadContinuationIsAnError ==
    (/\ pc = "returned"
     /\ KeyIsFollowed
     /\ ~(ComponentAfterKey = <<>> /\ source[Len(source)] = Hyphen)
     /\ ~IsImeComponent(ComponentAfterKey))
    => result = Err(source)

\* C5's case: a modifier keyword after the key, a second key, a lone ">"
BadContinuationWitness ==
    /\ pc = "returned"
    /\ KeyIsFollowed
    /\ ComponentAfterKey = <<ImeMarker>>
    /\ control
    /\ result = Err(source)

\* C6: when the loop is at a component that is no modifier keyword, the next
\* component is empty and the source ends with '-', the loop is left at once
\* with key "-", no ime_key and the modifier flags of the components before
\* it, and nothing after it is looked at.
HyphenKeyStopsTheParse ==
    [][(/\ pc = "loop"
        /\ components # <<>>
        /\ Head(components) \notin KeywordSet
        /\ Tail(components) # <<>>
        /\ Head(Tail(components)) = <<>>
        /\ source[Len(source)] = Hyphen)
       => (/\ pc' = "after_loop"
           /\ key' = Some(<<Hyphen>>)
           /\ ime_key' = None
           /\ components' = Tail(components)
           /\ [control |-> control', alt |-> alt', shift |-> shift',
               command |-> command', function |-> function']
              = ModifiersAmong(SourceComponents,
                               Len(SourceComponents) - Len(components)))]_vars

\* C7: a successful parse of a source whose first key component t is followed
\* by ">" + x, x not empty, gives key t and ime_key Some(x).
ImeContinuationGivesKeyAndImeKey ==
    (/\ pc = "returned"
     /\ result.ok
     /\ KeyIsFollowed
     /\ IsImeComponent(ComponentAfterKey))
    => /\ result.ks.key = SourceComponents[FirstKeyIndex(SourceComponents)]
       /\ result.ks.ime_key = Some(Tail(ComponentAfterKey))

\* the chords with their encodings
ChordEncodings == {<<FormatAsGrammar(k), k>> : k \in UnambiguousChords}

\* C8: parse of the grammar encoding of a Keystroke with no ime_key and a key
\* of one character or a known name of several, under any of the modifier
\* combinations, succeeds and gives that Keystroke.
RoundTrip ==
    pc = "returned" =>
        \A e \in ChordEncodings : source = e[1] => result = Ok(e[2])

\* C8's case: the hyphen key under all five modifiers, parsed back
RoundTripWitness ==
    /\ pc = "returned"
    /\ \E e \in ChordEncodings :
        /\ source = e[1]
        /\ e[2].key = <<Hyphen>>
        /\ e[2].modifiers = [control |-> TRUE, alt |-> TRUE, shift |-> TRUE,
                             command |-> TRUE, function |-> TRUE]
        /\ result = Ok(e[2])

\* [modifiers-]key, [modifiers-]key->ime_key, or the key followed by the
\* empty component of a source that ends with '-'
HasGrammarForm ==
    /\ HasKeyComponent(SourceComponents)
    /\ \/ FirstKeyIndex(SourceComponents) = Len(SourceComponents)
       \/ /\ FirstKeyIndex(SourceComponents) + 1 = Len(SourceComponents)
          /\ IsImeComponent(ComponentAfterKey)
       \/ /\ KeyIsFollowed
          /\ ComponentAfterKey = <<>>
          /\ source[Len(source)] = Hyphen

\* C9: every source parse accepts has the form [modifiers-]key[->ime_key],
\* with nothing after the key or after the key and its IME component; a source
\* with a component after the IME component is rejected.
AcceptedSourcesHaveGrammarForm ==
    (pc = "returned" /\ result.ok) => HasGrammarForm

----------------------------------------------------------------------------
(* The claim on with_simulated_ime, under SpecKeystroke *)

\* "f" and the decimal digits of n
FunctionKeyName(n) ==
    LET digit(d) == <<"0", "1", "2", "3", "4", "5", "6", "7", "8", "9">>[d + 1]
    IN  <<"f">> \o (IF n >= 10 THEN <<digit(n \div 10)>> ELSE <<>>)
               \o <<digit(n % 10)>>

\* the simulation as the design states it
SpecifiedSimulation(k) ==
    IF \/ k.ime_key # None
       \/ k.modifiers.command
       \/ k.modifiers.control
       \/ k.modifiers.function
       \/ k.modifiers.alt
    THEN k
    ELSE [modifiers |-> k.modifiers,
          key |-> k.key,
          ime_key |->
            CASE k.key = K_space -> Some(<<" ">>)
              [] k.key = K_tab -> Some(<<"\t">>)
              [] k.key = K_enter -> Some(<<"\n">>)
              [] k.key \in {K_up, K_down, K_left, K_right, K_pageup,
                            K_pagedown, K_home, K_end, K_delete, K_escape,
                            K_backspace}
                 \/ \E n \in 1..12 : k.key = FunctionKeyName(n) -> None
              [] OTHER -> IF k.modifiers.shift
                          THEN Some(ToUppercase(k.key))
                          ELSE Some(k.key)]

\* C10: with_simulated_ime returns the keystroke unchanged when it has an
\* ime_key or any of command, control, function, alt; otherwise it sets
\* ime_key to " " for space, "\t" for tab, "\n" for enter, leaves it None for
\* the navigation and function keys whatever shift is, and for any other key
\* sets the upper-cased key under shift and the key itself without.
SimulatedImeIsAsSpecified ==
    op = "with_simulated_ime" => simulated = SpecifiedSimulation(self)

\* C10's case: shift alone on a key that is no named key, whose upper case is
\* two characters
SimulatedImeWitness ==
    /\ op = "with_simulated_ime"
    /\ self.modifiers = [NoModifiers EXCEPT !.shift = TRUE]
    /\ self.ime_key = None
    /\ self.key = <<"ß">>
    /\ simulated.ime_key = Some(<<"S", "S">>)

----------------------------------------------------------------------------
(* The claim on the display formatter, under SpecKeystroke *)

\* the glyphs of the active modifiers among control, alt, command, shift, in
\* this order
ModifierGlyphs(m) ==
    (IF m.control THEN <<GlyphControl>> ELSE <<>>)
    \o (IF m.alt THEN <<GlyphAlt>> ELSE <<>>)
    \o (IF m.command THEN <<GlyphCommand>> ELSE <<>>)
    \o (IF m.shift THEN <<GlyphShift>> ELSE <<>>)

\* the iconographic character of a key that has one
NamedGlyph(k) ==
    CASE k = K_backspace -> <<GlyphBackspace>>
      [] k = K_up -> <<GlyphUp>>
      [] k = K_down -> <<GlyphDown>>
      [] k = K_left -> <<GlyphLeft>>
      [] k = K_right -> <<GlyphRight>>
      [] k = K_tab -> <<GlyphTab>>
      [] k = K_escape -> <<GlyphEscape>>

HasNamedGlyph(k) ==
    k \in {K_backspace, K_up, K_down, K_left, K_right, K_tab, K_escape}

\* C11 as stated: a key of exactly one character is written upper-cased.
DisplayUpperCasesOneCharacter ==
    op = "fmt" =>
        rendered = ModifierGlyphs(self.modifiers)
                   \o (IF HasNamedGlyph(self.key) THEN NamedGlyph(self.key)
                       ELSE IF Len(self.key) = 1 THEN ToUppercase(self.key)
                       ELSE self.key)

\* C11, amended: the rendering is the glyphs of the active modifiers among
\* control, alt, command, shift in this order (function and ime_key add
\* nothing), then the key glyph: the iconographic character of backspace, up,
\* down, left, right, tab, escape; for any other key of exactly one character
\* that character with an ASCII letter upper-cased and a character outside
\* ASCII as it is; otherwise the key label as it is.
DisplayUpperCasesOneAsciiCharacter ==
    op = "fmt" =>
        rendered = ModifierGlyphs(self.modifiers)
                   \o (IF HasNamedGlyph(self.key) THEN NamedGlyph(self.key)
                       ELSE IF Len(self.key) = 1
                            THEN <<CharToAsciiUppercase(self.key[1])>>
                       ELSE self.key)

\* C11's case: all five modifiers and an ime_key on a key of one character
\* outside ASCII
DisplayWitness ==
    /\ op = "fmt"
    /\ self.modifiers = [control |-> TRUE, alt |-> TRUE, shift |-> TRUE,
                         command |-> TRUE, function |-> TRUE]
    /\ self.ime_key # None
    /\ self.key = <<"å">>
    /\ rendered = <<GlyphControl, GlyphAlt, GlyphCommand, GlyphShift, "å">>

----------------------------------------------------------------------------
(* The second claim on match_candidates, under SpecKeystroke *)

\* C12: every candidate match_candidates returns has no ime_key, and
\* match_candidates of a candidate is that candidate alone.
CandidatesAreFixedPoints ==
    op = "match_candidates" =>
        \A i \in 1..Len(possibilities) :
            /\ possibilities[i].ime_key = None
            /\ MatchCandidates(possibilities[i]) = <<possibilities[i]>>

\* C12's case: two candidates of a keystroke with an ime_key and modifiers,
\* each its own only candidate
CandidatesAreFixedPointsWitness ==
    /\ op = "match_candidates"
    /\ self.ime_key.some
    /\ self.modifiers.control
    /\ self.modifiers.command
    /\ Len(possibilities) = 2
    /\ MatchCandidates(possibilities[1]) = <<possibilities[1]>>
    /\ MatchCandidates(possibilities[2]) = <<possibilities[2]>>

----------------------------------------------------------------------------
(* The claims on the multibuffer hint, under SpecHint *)

\* C13: after dismiss has run, every call of set_active_pane_item, with any
\* item on any hint, returns Hidden.
DismissHidesForGood ==
    (dismissed /\ last_call.name = "set_active_pane_item")
        => location = "Hidden"

\* C14: a call of set_active_pane_item raises the count by one at most, and
\* only for an item that is no singleton and that the hint had not yet in
\* shown_on, where it then is; with the count above NUMBER_OF_HINTS it returns
\* Hidden and leaves the count, shown_on and active_item as they are, so it
\* never raises the count above NUMBER_OF_HINTS + 1; no call takes an item out
\* of shown_on.
HintCountIsBounded ==
    [][/\ \A h \in Hints : shown_on[h] \subseteq shown_on'[h]
       /\ (counter.some /\ last_call'.name = "set_active_pane_item") =>
            /\ counter'.val \in {counter.val, counter.val + 1}
            /\ counter'.val = counter.val + 1 =>
                /\ last_call'.item.some
                /\ ~last_call'.singleton
                /\ last_call'.item.val \notin shown_on[last_call'.hint]
                /\ last_call'.item.val \in shown_on'[last_call'.hint]
                /\ counter'.val <= NUMBER_OF_HINTS + 1
            /\ counter.val > NUMBER_OF_HINTS =>
                /\ location' = "Hidden"
                /\ UNCHANGED <<counter, shown_on, active_item>>]_vars

\* C14's case: the count at NUMBER_OF_HINTS + 1, and a call with a multibuffer
\* the hint has not shown that returned Hidden and changed nothing
HintCountIsBoundedWitness ==
    /\ counter = Some(NUMBER_OF_HINTS + 1)
    /\ last_call.name = "set_active_pane_item"
    /\ last_call.item.some
    /\ ~last_call.singleton
    /\ last_call.item.val \notin shown_on[last_call.hint]
    /\ shown_on[last_call.hint] # {}
    /\ location = "Hidden"

====
